---- MODULE Spec2Model ----
(***************************************************************************)
(* Model of rename_xliff_files.py: scan a directory for *.xlf / *.xliff    *)
(* entries, plan renames "<anything>(<digits>).<ext>" -> "<digits>.<ext>"  *)
(* and "<anything>(latest).<ext>" -> "LATEST.<ext>", ask for confirmation, *)
(* and rename, refusing targets that already exist.                        *)
(*                                                                         *)
(* Filenames and answers are sequences of one-character strings, so that   *)
(* the regular expressions, Path.suffix, str.strip and str.lower are       *)
(* modelled by what they do to the characters.                             *)
(***************************************************************************)
EXTENDS Integers, Sequences, FiniteSets, TLC

(* ------------------------------ bounds -------------------------------- *)
\* Largest number of entries in an initial directory built from CoreNames.
MaxFiles == 3
\* Largest number of invalid answers typed at one confirmation prompt.
MaxInvalid == 1
\* Number of files another process may create (between a check and a rename).
MaxExternal == 1

(* --------------------------- character data --------------------------- *)
Digits == {"0", "1", "2", "3", "4", "5", "6", "7", "8", "9"}

\* str.lower() on one character (the letters that occur in the model).
LowerChar(c) ==
    CASE c = "A" -> "a" [] c = "E" -> "e" [] c = "F" -> "f" [] c = "I" -> "i"
      [] c = "L" -> "l" [] c = "N" -> "n" [] c = "O" -> "o" [] c = "S" -> "s"
      [] c = "T" -> "t" [] c = "X" -> "x" [] c = "Y" -> "y"
      [] OTHER -> c

\* str.lower()
Lower(s) == [i \in 1..Len(s) |-> LowerChar(s[i])]

\* str.strip(): drop leading and trailing whitespace.
Strip(s) ==
    LET keep == {i \in 1..Len(s) : s[i] # " "}
    IN  IF keep = {} THEN <<>>
        ELSE LET lo == CHOOSE i \in keep : \A j \in keep : i <= j
                 hi == CHOOSE i \in keep : \A j \in keep : i >= j
             IN  SubSeq(s, lo, hi)

\* The last n characters of s.
Tail_n(s, n) == SubSeq(s, Len(s) - n + 1, Len(s))

XLF == <<"x", "l", "f">>
XLIFF == <<"x", "l", "i", "f", "f">>
LATEST == <<"L", "A", "T", "E", "S", "T">>

(* ----------------------------- filenames ------------------------------ *)
DotXlf == <<".">> \o XLF
DotXliff == <<".">> \o XLIFF
Par5 == <<"(", "5", ")">>
ParLatest == <<"(", "l", "a", "t", "e", "s", "t", ")">>

Prefixes == { <<>>, <<"a", " ">>, <<"b", " ">>, <<"(", "7", ")">> }
Parens ==
    { <<>>, Par5, <<"(", "1", "2", ")">>, ParLatest,
      <<"(", "L", "a", "T", "e", "S", "t", ")">>,
      <<"(", ")">>, <<"(", "5", "a", ")">>, <<"(", "5", ")", "b">>, <<"5">> }
Exts ==
    { DotXlf, <<".", "X", "L", "F">>, DotXliff, <<".", "X", "l", "i", "f", "f">>,
      <<".", "t", "x", "t">> }

\* Every name of the grammar prefix + parenthetical + extension.
GrammarNames == { p \o q \o e : p \in Prefixes, q \in Parens, e \in Exts }

A5 == <<"a", " ">> \o Par5 \o DotXlf
B5 == <<"b", " ">> \o Par5 \o DotXlf
A5X == <<"a", " ">> \o Par5 \o <<".", "X", "L", "F">>
T5 == <<"5">> \o DotXlf
BLatestLiff == <<"b", " ">> \o ParLatest \o DotXliff
Plain == <<"p", "l", "a", "i", "n">> \o DotXlf
Notes == <<"n", "o", "t", "e", "s", ".", "t", "x", "t">>

\* The names from which directories of several entries are built.
CoreNames == { A5, B5, A5X, T5, BLatestLiff, Plain, Notes }

Answers ==
    { <<"y">>, <<"Y", "E", "S">>, <<" ", "Y", " ">>, <<"n">>, <<" ", "N", "o", " ">>,
      <<>>, <<"y", "e">>, <<" ">> }

(* ------------------------------- state -------------------------------- *)
VARIABLES
    posix,        \* TRUE: POSIX pathlib and filesystem; FALSE: Windows
    dirExists,    \* dir_path.exists()
    fs,           \* the directory: current name |-> identity of the file
    fs0,          \* the directory as it was when the current run started
    run,          \* 1 in the first invocation on the directory, 2 in the one after it
    pc,           \* position in rename_xliff_files
    xliff_files,  \* the scan result, in listing order
    renames,      \* the plan: sequence of <<old name, new name>>
    answer,       \* the last answer read, stripped and lowercased
    invalid,      \* invalid answers read at this prompt
    idx,          \* index in renames of the entry being processed
    success_count,
    error_count,
    out,          \* the messages printed by the current run
    prev,         \* what the previous run reported: whether it printed the summary,
                  \* and the sources it reported as failed
    extCount,     \* files created by another process so far
    touched       \* another process created a file during the current run

vars == << posix, dirExists, fs, fs0, run, pc, xliff_files, renames, answer,
           invalid, idx, success_count, error_count, out, prev, extCount, touched >>

(* ------------------------- platform semantics ------------------------- *)
\* How the filesystem compares two names: exactly on POSIX, ignoring letter
\* case on Windows.
Key(name) == IF posix THEN name ELSE Lower(name)

\* Mutant: the existence check looks at the listing made when the run started.
ExistsAtStart(name) == \E m \in DOMAIN fs0 : Key(m) = Key(name)

\* Path.exists() for a name of the directory.
Exists(name) == \E m \in DOMAIN fs : Key(m) = Key(name)

\* dir_path.glob('*' + ext): the entries whose name ends in ext; pathlib
\* compares case-sensitively on POSIX and case-insensitively on Windows.
Glob(ext) ==
    { n \in DOMAIN fs : Len(n) >= Len(ext) /\ Key(Tail_n(n, Len(ext))) = Key(ext) }

\* The listing orders of a set of names.
Orderings(S) ==
    { s \in [1..Cardinality(S) -> S] : \A i, j \in DOMAIN s : s[i] = s[j] => i = j }

\* Mutant: the file is copied to the new name and the old entry is kept.
RenamedKeepsOld(f, old, new) ==
    [n \in DOMAIN f \cup {new} |-> IF n = new THEN f[old] ELSE f[n]]

\* The directory after old has been renamed to new (an entry the filesystem
\* holds under the new name is replaced).
Renamed(f, old, new) ==
    LET names == ({ m \in DOMAIN f : Key(m) # Key(new) } \ {old}) \cup {new}
    IN  [n \in names |-> IF n = new THEN f[old] ELSE f[n]]

\* The identity of the k-th file created by another process.
ExtId(k) == [i \in 1..k |-> "*"]

(* ------------------------------ planner ------------------------------- *)
\* re.search(r'\((\d+)\)\.(xlf|xliff)$', filename, re.IGNORECASE): the places
\* <<i, j>> of the parentheses of a match.
NumberMatches(filename) ==
    { ij \in (1..Len(filename)) \X (1..Len(filename)) :
        /\ filename[ij[1]] = "("
        /\ ij[2] > ij[1] + 1
        /\ \A k \in (ij[1] + 1)..(ij[2] - 1) : filename[k] \in Digits
        /\ filename[ij[2]] = ")"
        /\ ij[2] + 1 <= Len(filename)
        /\ filename[ij[2] + 1] = "."
        /\ Lower(SubSeq(filename, ij[2] + 2, Len(filename))) \in {XLF, XLIFF} }

\* number_match.group(1) of the leftmost match.
NumberGroup(filename) ==
    LET ms == NumberMatches(filename)
        m == CHOOSE x \in ms : \A y \in ms : x[1] <= y[1]
    IN  SubSeq(filename, m[1] + 1, m[2] - 1)

\* re.search(r'\(latest\)\.(xlf|xliff)$', filename, re.IGNORECASE) matched.
LatestMatch(filename) ==
    \E i \in 1..Len(filename) :
        /\ i + 8 <= Len(filename)
        /\ Lower(SubSeq(filename, i, i + 7)) = <<"(">> \o Lower(LATEST) \o <<")">>
        /\ filename[i + 8] = "."
        /\ Lower(SubSeq(filename, i + 9, Len(filename))) \in {XLF, XLIFF}

\* Mutant: the extension is normalised to lower case.
SuffixLower(name) ==
    LET dots == {i \in 1..Len(name) : name[i] = "."}
    IN  IF dots = {} THEN <<>>
        ELSE LET i == CHOOSE d \in dots : \A e \in dots : d >= e
             IN  IF 1 < i /\ i < Len(name) THEN Lower(SubSeq(name, i, Len(name))) ELSE <<>>

\* Path.suffix: the name from its last dot on, when that dot is neither the
\* first nor the last character; otherwise the empty string.
Suffix(name) ==
    LET dots == {i \in 1..Len(name) : name[i] = "."}
    IN  IF dots = {} THEN <<>>
        ELSE LET i == CHOOSE d \in dots : \A e \in dots : d >= e
             IN  IF 1 < i /\ i < Len(name) THEN SubSeq(name, i, Len(name)) ELSE <<>>

\* Mutant: the latest token is written in lower case.
NewNameLatestLower(filename) ==
    IF NumberMatches(filename) # {} THEN NumberGroup(filename) \o Suffix(filename)
    ELSE IF LatestMatch(filename) THEN Lower(LATEST) \o Suffix(filename)
    ELSE <<>>

\* new_name after the if/elif; the empty sequence stands for None.
NewName(filename) ==
    IF NumberMatches(filename) # {} THEN NumberGroup(filename) \o Suffix(filename)
    ELSE IF LatestMatch(filename) THEN LATEST \o Suffix(filename)
    ELSE <<>>

\* Mutant: the test for None is left out.
InPlanNoneNotTested(filename) == NewName(filename) # filename

\* `if new_name and new_name != filename`
InPlan(filename) == NewName(filename) # <<>> /\ NewName(filename) # filename

\* The plan for a scan result: renames after the planning loop.
RECURSIVE Plan(_)
Plan(files) ==
    IF files = <<>> THEN <<>>
    ELSE LET f == Head(files)
         IN  (IF InPlan(f) THEN << <<f, NewName(f)>> >> ELSE <<>>) \o Plan(Tail(files))

(* ---------------------------- confirmation ---------------------------- *)
\* input(...).strip().lower()
Normal(a) == Lower(Strip(a))

Yes == { <<"y">>, <<"y", "e", "s">> }
No == { <<"n">>, <<"n", "o">> }

(* ------------------------------ messages ------------------------------ *)
\* The sources of the entries a run reported as failed ('file already
\* exists' or 'Error renaming').
FailedSources(o) == { o[i][2] : i \in { j \in DOMAIN o : o[j][1] \in {"exists", "error"} } }

\* The run printed 'Complete: ...'.
Completed(o) == \E i \in DOMAIN o : o[i][1] = "complete"

(* ------------------------------- Init --------------------------------- *)
\* Initial directories: every combination of at most MaxFiles core names,
\* and every name of the grammar on its own.
InitDirs ==
    { S \in SUBSET CoreNames : Cardinality(S) <= MaxFiles }
        \cup { {n} : n \in GrammarNames }

Init ==
    /\ posix \in BOOLEAN
    /\ dirExists \in BOOLEAN
    /\ \E S \in InitDirs :
         /\ dirExists \/ S = {}
         /\ posix \/ \A a, b \in S : Lower(a) = Lower(b) => a = b
         /\ fs = [n \in S |-> n]
    /\ fs0 = fs
    /\ run = 1
    /\ pc = "start"
    /\ xliff_files = <<>>
    /\ renames = <<>>
    /\ answer = <<>>
    /\ invalid = 0
    /\ idx = 0
    /\ success_count = 0
    /\ error_count = 0
    /\ out = <<>>
    /\ prev = [accepted |-> FALSE, failed |-> {}]
    /\ extCount = 0
    /\ touched = FALSE

(* ------------------------------ actions ------------------------------- *)
\* The first run is over and main() is started again on the same directory.
Restart ==
    /\ pc = "done"
    /\ run = 1
    /\ run' = run + 1
    /\ fs0' = fs
    /\ pc' = "start"
    /\ xliff_files' = <<>>
    /\ renames' = <<>>
    /\ answer' = <<>>
    /\ invalid' = 0
    /\ idx' = 0
    /\ success_count' = 0
    /\ error_count' = 0
    /\ prev' = [accepted |-> Completed(out), failed |-> FailedSources(out)]
    /\ out' = <<>>
    /\ touched' = FALSE
    /\ UNCHANGED << posix, dirExists, fs, extCount >>

\* The directory does not exist: one message, return.
DirMissing ==
    /\ pc = "start"
    /\ ~dirExists
    /\ out' = Append(out, <<"no_dir">>)
    /\ pc' = "done"
    /\ UNCHANGED << posix, dirExists, fs, fs0, run, xliff_files, renames, answer,
                    invalid, idx, success_count, error_count, prev, extCount, touched >>

\* The scan finds no *.xlf and no *.xliff entry.
NoXliffFiles ==
    /\ pc = "start"
    /\ dirExists
    /\ Glob(DotXlf) \cup Glob(DotXliff) = {}
    /\ out' = out \o << <<"scanning">>, <<"no_xliff">> >>
    /\ pc' = "done"
    /\ UNCHANGED << posix, dirExists, fs, fs0, run, xliff_files, renames, answer,
                    invalid, idx, success_count, error_count, prev, extCount, touched >>

\* The scan: the *.xlf entries in listing order, then the *.xliff entries.
Discover ==
    /\ pc = "start"
    /\ dirExists
    /\ \E a \in Orderings(Glob(DotXlf)), b \in Orderings(Glob(DotXliff)) :
         /\ a \o b # <<>>
         /\ xliff_files' = a \o b
         /\ out' = out \o << <<"scanning">>, <<"found", Len(a \o b)>> >>
    /\ pc' = "plan"
    /\ UNCHANGED << posix, dirExists, fs, fs0, run, renames, answer,
                    invalid, idx, success_count, error_count, prev, extCount, touched >>

\* The planning loop leaves renames empty: one message, return.
PlanEmpty ==
    /\ pc = "plan"
    /\ Plan(xliff_files) = <<>>
    /\ renames' = <<>>
    /\ out' = Append(out, <<"no_renames">>)
    /\ pc' = "done"
    /\ UNCHANGED << posix, dirExists, fs, fs0, run, xliff_files, answer,
                    invalid, idx, success_count, error_count, prev, extCount, touched >>

\* The planning loop, then the plan is printed.
PlanShown ==
    /\ pc = "plan"
    /\ Plan(xliff_files) # <<>>
    /\ renames' = Plan(xliff_files)
    /\ out' = Append(out, <<"plan">>)
    /\ pc' = "confirm"
    /\ UNCHANGED << posix, dirExists, fs, fs0, run, xliff_files, answer,
                    invalid, idx, success_count, error_count, prev, extCount, touched >>

\* An answer that is none of y, yes, n, no: prompt again.
ReadInvalid ==
    /\ pc = "confirm"
    /\ invalid < MaxInvalid
    /\ \E a \in Answers :
         /\ Normal(a) \notin Yes \cup No
         /\ answer' = Normal(a)
    /\ invalid' = invalid + 1
    /\ out' = Append(out, <<"please">>)
    /\ UNCHANGED << posix, dirExists, fs, fs0, run, pc, xliff_files, renames,
                    idx, success_count, error_count, prev, extCount, touched >>

\* Mutant: the executor starts on any valid answer, n and no included.
AcceptAnyValid ==
    /\ pc = "confirm"
    /\ \E a \in Answers :
         /\ Normal(a) \in Yes \cup No
         /\ answer' = Normal(a)
    /\ success_count' = 0
    /\ error_count' = 0
    /\ idx' = 1
    /\ out' = Append(out, <<"blank">>)
    /\ pc' = "exec"
    /\ UNCHANGED << posix, dirExists, fs, fs0, run, xliff_files, renames,
                    invalid, prev, extCount, touched >>

\* y or yes: the counters are set to 0 and the executor's loop starts.
Accept ==
    /\ pc = "confirm"
    /\ \E a \in Answers :
         /\ Normal(a) \in Yes
         /\ answer' = Normal(a)
    /\ success_count' = 0
    /\ error_count' = 0
    /\ idx' = 1
    /\ out' = Append(out, <<"blank">>)
    /\ pc' = "exec"
    /\ UNCHANGED << posix, dirExists, fs, fs0, run, xliff_files, renames,
                    invalid, prev, extCount, touched >>

\* n or no: 'Renaming cancelled'.
Decline ==
    /\ pc = "confirm"
    /\ \E a \in Answers :
         /\ Normal(a) \in No
         /\ answer' = Normal(a)
    /\ out' = Append(out, <<"cancelled">>)
    /\ pc' = "done"
    /\ UNCHANGED << posix, dirExists, fs, fs0, run, xliff_files, renames,
                    invalid, idx, success_count, error_count, prev, extCount, touched >>

\* Mutant: an existing target does not stop the rename.
TargetExistsOverwrites ==
    /\ pc = "exec"
    /\ idx <= Len(renames)
    /\ Exists(renames[idx][2])
    /\ pc' = "rename"
    /\ UNCHANGED << posix, dirExists, fs, fs0, run, xliff_files, renames, answer,
                    invalid, idx, success_count, error_count, out, prev, extCount,
                    touched >>

\* new_path.exists() is true: report, count a failure, continue.
TargetExists ==
    /\ pc = "exec"
    /\ idx <= Len(renames)
    /\ Exists(renames[idx][2])
    /\ out' = Append(out, <<"exists", renames[idx][1], renames[idx][2]>>)
    /\ error_count' = error_count + 1
    /\ idx' = idx + 1
    /\ UNCHANGED << posix, dirExists, fs, fs0, run, pc, xliff_files, renames, answer,
                    invalid, success_count, prev, extCount, touched >>

\* new_path.exists() is false: go on to the rename call.
TargetFree ==
    /\ pc = "exec"
    /\ idx <= Len(renames)
    /\ ~Exists(renames[idx][2])
    /\ pc' = "rename"
    /\ UNCHANGED << posix, dirExists, fs, fs0, run, xliff_files, renames, answer,
                    invalid, idx, success_count, error_count, out, prev, extCount,
                    touched >>

\* old_path.rename(new_path) returns. On POSIX rename replaces an entry
\* that exists at the target; on Windows it raises FileExistsError instead.
RenameOk ==
    /\ pc = "rename"
    /\ renames[idx][1] \in DOMAIN fs
    /\ posix \/ ~Exists(renames[idx][2])
    /\ fs' = Renamed(fs, renames[idx][1], renames[idx][2])
    /\ out' = Append(out, <<"renamed", renames[idx][1], renames[idx][2]>>)
    /\ success_count' = success_count + 1
    /\ idx' = idx + 1
    /\ pc' = "exec"
    /\ UNCHANGED << posix, dirExists, fs0, run, xliff_files, renames, answer,
                    invalid, error_count, prev, extCount, touched >>

\* Mutant: the exception is not caught and ends the run.
RenameRaisesAborts ==
    /\ pc = "rename"
    /\ pc' = "done"
    /\ UNCHANGED << posix, dirExists, fs, fs0, run, xliff_files, renames, answer,
                    invalid, idx, success_count, error_count, out, prev, extCount,
                    touched >>

\* Mutant: the success is reported and counted before the rename is tried.
RenameRaisesAsSuccess ==
    /\ pc = "rename"
    /\ out' = Append(out, <<"renamed", renames[idx][1], renames[idx][2]>>)
    /\ success_count' = success_count + 1
    /\ idx' = idx + 1
    /\ pc' = "exec"
    /\ UNCHANGED << posix, dirExists, fs, fs0, run, xliff_files, renames, answer,
                    invalid, error_count, prev, extCount, touched >>

\* old_path.rename(new_path) raises (permissions, I/O, FileExistsError on
\* Windows): the directory is unchanged, a failure is counted.
RenameRaises ==
    /\ pc = "rename"
    /\ out' = Append(out, <<"error", renames[idx][1]>>)
    /\ error_count' = error_count + 1
    /\ idx' = idx + 1
    /\ pc' = "exec"
    /\ UNCHANGED << posix, dirExists, fs, fs0, run, xliff_files, renames, answer,
                    invalid, success_count, prev, extCount, touched >>

\* The loop is over: the summary.
Summary ==
    /\ pc = "exec"
    /\ idx > Len(renames)
    /\ out' = out \o << <<"complete", success_count>> >>
                  \o (IF error_count > 0 THEN << <<"failed", error_count>> >> ELSE <<>>)
    /\ pc' = "done"
    /\ UNCHANGED << posix, dirExists, fs, fs0, run, xliff_files, renames, answer,
                    invalid, idx, success_count, error_count, prev, extCount, touched >>

\* Another process creates a file at the target path after the existence
\* check and before the rename call.
ExternalCreate ==
    /\ pc = "rename"
    /\ extCount < MaxExternal
    /\ ~Exists(renames[idx][2])
    /\ fs' = [n \in DOMAIN fs \cup {renames[idx][2]} |->
                IF n = renames[idx][2] THEN ExtId(extCount + 1) ELSE fs[n]]
    /\ extCount' = extCount + 1
    /\ touched' = TRUE
    /\ UNCHANGED << posix, dirExists, fs0, run, pc, xliff_files, renames, answer,
                    invalid, idx, success_count, error_count, out, prev >>

Next ==
    \/ Restart
    \/ DirMissing
    \/ NoXliffFiles
    \/ Discover
    \/ PlanEmpty
    \/ PlanShown
    \/ ReadInvalid
    \/ Accept
    \/ Decline
    \/ TargetExists
    \/ TargetFree
    \/ RenameOk
    \/ RenameRaises
    \/ Summary
    \/ ExternalCreate

Spec == Init /\ [][Next]_vars

(* ======================= properties of the program ===================== *)
\* The per-entry reports of the executor, in the order printed.
IsReport(m) == m[1] \in {"exists", "renamed", "error"}
Reports == SelectSeq(out, IsReport)

Sources == { renames[i][1] : i \in DOMAIN renames }
Targets == { renames[i][2] : i \in DOMAIN renames }

\* The planning loop of the current run is over.
Planned == pc \in {"confirm", "exec", "rename", "done"}

\* The current run was accepted and has printed its summary.
Finished == pc = "done" /\ Completed(out)

\* C1 (first part). Whenever the executor processes an entry whose target
\* exists at that time, that step leaves the directory exactly as it was
\* (no rename: target file untouched, source under its original name), adds 1
\* to error_count, leaves success_count alone and moves on to the next entry.
C1_CheckStep ==
    (pc = "exec" /\ idx <= Len(renames) /\ Exists(renames[idx][2]))
        => /\ fs' = fs
           /\ error_count' = error_count + 1
           /\ success_count' = success_count
           /\ idx' = idx + 1
           /\ pc' = "exec"

\* C1 (scenario). A run on a directory holding exactly `a (5).xlf` and
\* `5.xlf`, accepted and not disturbed by another process, ends with both
\* files as they were, 0 successes and 1 failure.
C1_Scenario ==
    (Finished /\ ~touched /\ DOMAIN fs0 = {A5, T5})
        => fs = fs0 /\ success_count = 0 /\ error_count = 1

\* C1. Conflict safety: an entry whose target exists when it is processed is
\* not renamed, nothing in the directory changes, and it is counted as one
\* failure; the `a (5).xlf` / `5.xlf` run ends with both files, 0 successes
\* and 1 failure.
C1_ConflictSafety == [][C1_CheckStep]_vars /\ []C1_Scenario

C1_Witness ==
    /\ Finished
    /\ DOMAIN fs0 = {A5, T5}
    /\ Len(out) >= 1
    /\ \E i \in DOMAIN out : out[i] = <<"exists", A5, T5>>
    /\ error_count = 1

\* C2. Declining leaves every file's name unchanged: a run that ends after
\* an answer n / no (in any case, with surrounding whitespace, after any
\* number of invalid answers) ends with the directory as it was at the start,
\* and no step changes the set of names in the directory unless y / yes has
\* been read in that run.
C2_DeclineNoChange ==
    /\ []((pc = "done" /\ answer \in No) => fs = fs0)
    /\ [][DOMAIN fs' # DOMAIN fs => answer \in {<<"y">>, <<"y", "e", "s">>}]_vars

C2_Witness ==
    /\ pc = "done"
    /\ answer \in No
    /\ invalid >= 1
    /\ Len(renames) >= 2
    /\ out[Len(out)] = <<"cancelled">>

\* C3 as claimed. After a first accepted run, the second run on the same
\* directory proposes an empty plan.
C3_SecondPlanEmpty ==
    (run = 2 /\ prev.accepted /\ Planned) => renames = <<>>

\* C3 as amended. After a first accepted run, the plan of the second run
\* consists exactly of the entries the first run reported as failed: a file
\* the first run renamed generates no further rename, and the second plan is
\* empty exactly when the first run reported no failure.
C3_SecondPlanIsFailures ==
    (run = 2 /\ prev.accepted /\ Planned)
        => /\ Sources = prev.failed
           /\ Len(renames) = Cardinality(prev.failed)
           /\ \A n \in DOMAIN fs0 : fs0[n] # n => n \notin Sources

C3_Witness ==
    /\ run = 2
    /\ prev.accepted
    /\ Finished
    /\ prev.failed # {}
    /\ \E n \in DOMAIN fs0 : fs0[n] # n /\ fs0[n] \notin prev.failed

\* The splits of a filename f as <anything>(<body>).<ext> with <ext> equal
\* to xlf or xliff ignoring letter case: <<first, last>> places of <body>.
ParenSplits(f) ==
    LET ends == { j \in 1..(Len(f) - 3) :
                    /\ f[j + 1] = ")"
                    /\ f[j + 2] = "."
                    /\ \E e \in {XLF, XLIFF} :
                          /\ Len(f) - (j + 2) = Len(e)
                          /\ \A k \in 1..Len(e) : LowerChar(f[j + 2 + k]) = e[k] }
    IN  UNION { { <<i, j>> : i \in { h \in 2..j : f[h - 1] = "(" } } : j \in ends }

\* C4. Numbered pattern: every candidate filename ending in (<digits>).<ext>,
\* <ext> being xlf or xliff in any letter case, is in the plan with the target
\* <digits>.<ext>, the digits unchanged and the extension as written.
C4_NumberedTarget ==
    Planned =>
        \A n \in DOMAIN xliff_files :
            LET f == xliff_files[n]
            IN  \A ij \in ParenSplits(f) :
                    (\A k \in ij[1]..ij[2] : f[k] \in Digits)
                        => \E m \in DOMAIN renames :
                              renames[m] = << f, SubSeq(f, ij[1], ij[2])
                                                   \o SubSeq(f, ij[2] + 2, Len(f)) >>

C4_Witness ==
    /\ pc = "confirm"
    /\ xliff_files = << <<"(", "7", ")", "(", "1", "2", ")", ".", "X", "L", "F">> >>
    /\ renames[1][2] = <<"1", "2", ".", "X", "L", "F">>

\* C5. Latest pattern: every candidate filename ending in (latest).<ext>,
\* `latest` and <ext> in any letter case, is in the plan with the target
\* LATEST.<ext>: the token in upper case, the extension as written.
C5_LatestTarget ==
    Planned =>
        \A n \in DOMAIN xliff_files :
            LET f == xliff_files[n]
            IN  \A ij \in ParenSplits(f) :
                    ( /\ ij[2] - ij[1] = 5
                      /\ \A k \in 0..5 : LowerChar(f[ij[1] + k]) = LowerChar(LATEST[k + 1]) )
                        => \E m \in DOMAIN renames :
                              renames[m] = << f, <<"L", "A", "T", "E", "S", "T">>
                                                   \o SubSeq(f, ij[2] + 2, Len(f)) >>

C5_Witness ==
    /\ pc = "confirm"
    /\ xliff_files = << <<"a", " ", "(", "L", "a", "T", "e", "S", "t", ")",
                          ".", "X", "l", "i", "f", "f">> >>
    /\ renames[1][2] = <<"L", "A", "T", "E", "S", "T", ".", "X", "l", "i", "f", "f">>

\* C6. Only names change: as long as no other process has touched the
\* directory during the run, the directory holds as many entries as at the
\* start, every file of the start is present under its original name or under
\* the target of its plan entry, nothing else is present, and a file that is
\* not the source of a plan entry keeps its name.
C6_OnlyNamesChange ==
    ~touched =>
        /\ Cardinality(DOMAIN fs) = Cardinality(DOMAIN fs0)
        /\ { fs[n] : n \in DOMAIN fs } = { fs0[n] : n \in DOMAIN fs0 }
        /\ \A n \in DOMAIN fs0 :
              \/ n \in DOMAIN fs /\ fs[n] = fs0[n]
              \/ \E i \in DOMAIN renames :
                    /\ renames[i][1] = n
                    /\ renames[i][2] \in DOMAIN fs
                    /\ fs[renames[i][2]] = fs0[n]
        /\ \A n \in DOMAIN fs0 \ Sources : n \in DOMAIN fs /\ fs[n] = fs0[n]

C6_Witness ==
    /\ ~touched
    /\ Finished
    /\ success_count >= 1
    /\ error_count >= 1
    /\ DOMAIN fs0 \ Sources # {}
    /\ DOMAIN fs # DOMAIN fs0

\* C7. A per-entry failure never aborts the batch: while the executor runs,
\* the reports printed so far are those of the first idx - 1 plan entries, one
\* each and in plan order, and each added 1 to exactly one of the counters; an
\* accepted run ends only with the summary, after every entry was processed,
\* so that success_count + error_count = number of plan entries.
C7_BatchNeverAborts ==
    /\ (pc \in {"exec", "rename"} \/ (pc = "done" /\ answer \in Yes)) =>
          /\ Len(Reports) = idx - 1
          /\ idx <= Len(renames) + 1
          /\ \A k \in DOMAIN Reports : Reports[k][2] = renames[k][1]
          /\ success_count = Cardinality({ k \in DOMAIN Reports : Reports[k][1] = "renamed" })
          /\ error_count = Cardinality({ k \in DOMAIN Reports : Reports[k][1] # "renamed" })
          /\ success_count + error_count = idx - 1
    /\ (pc = "done" /\ answer \in Yes) =>
          /\ Completed(out)
          /\ idx = Len(renames) + 1
          /\ success_count + error_count = Len(renames)

C7_Witness ==
    /\ Finished
    /\ Len(renames) = 3
    /\ Reports[1][1] = "renamed"
    /\ Reports[2][1] = "exists"
    /\ Reports[3][1] = "error"
    /\ success_count = 1
    /\ error_count = 2

\* C8 as claimed. When the target of the current entry has appeared between
\* the existence check and the rename call, the rename step changes nothing
\* in the directory, counts the entry as a failure and not as a success,
\* reports the error and goes on to the next entry.
C8_RaceIsFailure ==
    [][ (pc = "rename" /\ Exists(renames[idx][2]) /\ pc' # "rename")
          => /\ fs' = fs
             /\ error_count' = error_count + 1
             /\ success_count' = success_count
             /\ out' = Append(out, <<"error", renames[idx][1]>>)
             /\ idx' = idx + 1
             /\ pc' = "exec" ]_vars

\* The messages that end a run with an empty plan.
EmptyPlanOutputs ==
    { << <<"no_dir">> >>,
      << <<"scanning">>, <<"no_xliff">> >>,
      << <<"scanning">>, <<"found", Len(xliff_files)>>, <<"no_renames">> >> }

\* Every plan entry comes from a name ending in (<digits>).<ext> or
\* (latest).<ext>, and the prompt is reached only with a non-empty plan.
C9_PlanOnlyMatches ==
    /\ \A m \in DOMAIN renames :
          \E ij \in ParenSplits(renames[m][1]) :
             \/ \A k \in ij[1]..ij[2] : renames[m][1][k] \in Digits
             \/ Lower(SubSeq(renames[m][1], ij[1], ij[2])) = Lower(LATEST)
    /\ pc = "confirm" => renames # <<>>
    /\ (invalid > 0 \/ answer # <<>>) => renames # <<>>

\* C9 as claimed. A name matching neither pattern is never in the plan, the
\* prompt is reached only with a non-empty plan, and a run whose plan is empty
\* ends after one message, no answer read and no rename made.
C9_EmptyPlanOneMessage ==
    /\ C9_PlanOnlyMatches
    /\ (pc = "done" /\ renames = <<>>) =>
          /\ Len(out) = 1
          /\ answer = <<>> /\ invalid = 0
          /\ fs = fs0

\* C9 as amended. As claimed, except that the run with an empty plan ends
\* after its closing message, which is the only message when the directory
\* does not exist and otherwise follows the 'Scanning directory' line and,
\* when entries were found, the 'Found N XLIFF file(s)' line.
C9_EmptyPlanNoPrompt ==
    /\ C9_PlanOnlyMatches
    /\ (Planned /\ renames = <<>>) => pc = "done"
    /\ (pc = "done" /\ renames = <<>>) =>
          /\ out \in EmptyPlanOutputs
          /\ answer = <<>> /\ invalid = 0
          /\ fs = fs0

C9_Witness ==
    /\ pc = "done"
    /\ DOMAIN fs = {Plain, Notes}
    /\ renames = <<>>
    /\ out = << <<"scanning">>, <<"found", 1>>, <<"no_renames">> >>

\* The name is present, as the filesystem compares names, in directory d.
ExistsIn(d, name) == \E m \in DOMAIN d : Key(m) = Key(name)

\* The plan targets, as the filesystem compares them, that were free when
\* the run started.
FreeTargets == { Key(t) : t \in { u \in Targets : ~ExistsIn(fs0, u) } }

\* Entry i is the earliest entry of the plan with its target.
Earliest(i) == \A j \in 1..(i - 1) : Key(renames[j][2]) # Key(renames[i][2])

\* No plan target is the source of a plan entry.
NoChains == \A i, j \in DOMAIN renames : Key(renames[i][2]) # Key(renames[j][1])

\* What C10 says of an accepted run that has printed its summary.
DuplicateTargetOutcome ==
    /\ NoChains
    /\ success_count = Cardinality(FreeTargets)
    /\ \A i \in DOMAIN renames :
          IF Earliest(i) /\ ~ExistsIn(fs0, renames[i][2])
          THEN /\ Reports[i][1] = "renamed"
               /\ fs[renames[i][2]] = fs0[renames[i][1]]
          ELSE /\ Reports[i][1] # "renamed"
               /\ renames[i][1] \in DOMAIN fs
               /\ fs[renames[i][1]] = fs0[renames[i][1]]

====
